---- MODULE Spec2Model ----
(***************************************************************************)
(* Hybrid retrieval engine of MedTechONE_AI_Expert.py:                     *)
(*   get_embedding                     (lru_cache-wrapped coroutine)       *)
(*   DocumentCache                     (TTL cache, lazy expiry)            *)
(*   retrieve_relevant_content_unified (PDF vector -> keyword fallback ->  *)
(*                                      web vector -> merge/sort)          *)
(*   list_airtable_resources          (catalog filter, defaults, ranking) *)
(* streamlit_ui.py: run_agent_with_streaming (retry loop), assessment mode *)
(* process_pdf_docs.py: insert_pdf_chunk                                   *)
(* External services (OpenAI embeddings, Supabase RPC / table queries) are *)
(* nondeterministic: every call may answer with rows, answer with no data, *)
(* or raise.                                                               *)
(***************************************************************************)
EXTENDS Integers, Sequences, FiniteSets, TLC

\* ---------------------------------------------------------------- bounds
MaxQueryLen == 3     \* pieces (words / blanks) in a user query
MaxRows == 2         \* rows in one store reply (the code caps them at 10)
MaxSearches == 2     \* searches of one session of the process
MaxTicks == 3        \* clock advances seen by the document cache
MaxCalls == 3        \* direct calls of get_embedding
MaxTextLen == 2      \* letters in a text field of a catalog record
MaxRecords == 3      \* records in a catalog snapshot with scores
MaxChunks == 2       \* chunks of one streamed response
MaxInserts == 4      \* calls of insert_pdf_chunk

\* ------------------------------------------------------ program constants
EMBEDDING_CACHE_SIZE == 1000
EMBEDDING_DIM == 1536
CACHE_TTL == 3600
DEFAULT_RELEVANCE == 3
max_retries == 3
INITIAL_RETRY_DELAY == 1
ASSESSMENT_LENGTH == 6

\* ------------------------------------------------------------ query text
\* A query is a sequence of pieces: words (possibly capitalised) and blanks.
Blank == " "
Pieces == {"Device", Blank}

RECURSIVE SeqsUpTo(_, _)
SeqsUpTo(S, n) ==
    IF n = 0 THEN {<<>>}
    ELSE SeqsUpTo(S, n - 1) \cup {Append(s, x) : s \in [1..(n - 1) -> S], x \in S}

Queries == SeqsUpTo(Pieces, MaxQueryLen)

\* str.lower() on one piece
LowerPiece(p) ==
    CASE p = "Device" -> "device"
      [] OTHER -> p

\* str.lower() on the query
Lower(q) == [i \in DOMAIN q |-> LowerPiece(q[i])]

\* the text of a piece sequence
RECURSIVE Text(_)
Text(q) == IF q = <<>> THEN "" ELSE q[1] \o Text(Tail(q))

\* str.split(): maximal runs of non-blank pieces, empty runs discarded
RECURSIVE SplitFrom(_, _)
SplitFrom(q, cur) ==
    IF q = <<>> THEN (IF cur = "" THEN <<>> ELSE <<cur>>)
    ELSE IF q[1] = Blank
         THEN (IF cur = "" THEN <<>> ELSE <<cur>>) \o SplitFrom(Tail(q), "")
         ELSE SplitFrom(Tail(q), cur \o q[1])

Split(q) == SplitFrom(q, "")

Bootstrap == <<"class", "classification", "device", "medical">>

\* (mutant) the full lowercased query is left out of the list
KeywordsTokensOnly(q) == Split(Lower(q)) \o Bootstrap

\* keywords = [user_query.lower()] + query_terms + [bootstrap terms]
Keywords(q) == <<Text(Lower(q))>> \o Split(Lower(q)) \o Bootstrap

\* ------------------------------------------------------------ store rows
NoSim == -1          \* similarity None / key absent
Ids == {1, 2}
\* rows of match_pdf_documents and of match_site_pages
PdfRows == [id : Ids, sim : {NoSim, 90}]
WebRows == [id : Ids, sim : {90, 95}]
\* rows of the substring queries: the select list has no similarity column
KeywordRows == [id : Ids, sim : {NoSim}]

Reply(rows) ==
    [status : {"ok"}, data : SeqsUpTo(rows, MaxRows)]
      \cup {[status |-> "nodata", data |-> <<>>], [status |-> "raise", data |-> <<>>]}

\* `result.data or []`
DataOrEmpty(reply) == IF reply.status = "ok" THEN reply.data ELSE <<>>

\* ------------------------------------------------------------- embedding
NoVector == [len |-> 0, zero |-> TRUE]
BackendVector == [len |-> EMBEDDING_DIM, zero |-> FALSE]
\* [0] * 1536
ZeroVector == [len |-> 1536, zero |-> TRUE]

\* lru_cache key: (text, openai_client); the module has one client handle
CacheKey(text) == [text |-> text, client |-> "openai_client"]

MemoIndex(m, key) ==
    IF \E i \in DOMAIN m : m[i].key = key
    THEN CHOOSE i \in DOMAIN m : m[i].key = key
    ELSE 0

Without(m, i) == SubSeq(m, 1, i - 1) \o SubSeq(m, i + 1, Len(m))

\* (mutant) a hit leaves the recency order as it is
LruNoTouch(m, key) == m

\* lru_cache hit: the entry becomes the most recently used one
LruTouch(m, key) == Append(Without(m, MemoIndex(m, key)), m[MemoIndex(m, key)])

\* lru_cache miss: the new coroutine object is stored, the least recently
\* used entry is dropped when the cache is full
LruInsert(m, key) ==
    LET kept == IF Len(m) >= EMBEDDING_CACHE_SIZE THEN Tail(m) ELSE m
    IN  Append(kept, [key |-> key, value |-> NoVector])

\* the coroutine of a finished or running call, set to what its body returned
MemoResolve(m, key, v) ==
    IF MemoIndex(m, key) = 0 THEN m ELSE [m EXCEPT ![MemoIndex(m, key)].value = v]

\* texts handed to get_embedding by direct callers; a text is a number here
Callers == {1, 2}
SharedTexts == {1, 2}
LruTexts == {1, 2, EMBEDDING_CACHE_SIZE, EMBEDDING_CACHE_SIZE + 1}

\* the number of the latest call with a text, 0 when there was none
LastUseOf(l, t) == IF t \in DOMAIN l THEN l[t] ELSE 0

\* the call numbered n was made with the text t
Used(l, t, n) == [x \in DOMAIN l \cup {t} |-> IF x = t THEN n ELSE l[x]]
NoText == 0
Idle == [pc |-> "ready", text |-> NoText, ret |-> "none", vector |-> NoVector]

\* the body of get_embedding: the backend answer, or zeros when it raises
EmbeddingResult(backend) == IF backend = "ok" THEN BackendVector ELSE ZeroVector

\* ---------------------------------------------------------------- search
\* (mutant) rows are appended without looking at seen_ids
MergeRowsNoCheck(working, rows) == working \o rows

\* append every row whose id is not yet in the working list
RECURSIVE MergeRows(_, _)
MergeRows(working, rows) ==
    IF rows = <<>> THEN working
    ELSE IF \E i \in DOMAIN working : working[i].id = rows[1].id
         THEN MergeRows(working, Tail(rows))
         ELSE MergeRows(Append(working, rows[1]), Tail(rows))

\* (mutant) the title rows are merged before the content rows
MergeKeywordTitleFirst(working, content, title) ==
    MergeRows(MergeRows(working, title), content)

\* one keyword iteration: content rows first, then title rows
MergeKeyword(working, content, title) == MergeRows(MergeRows(working, content), title)

\* (mutant) the keyword search always runs, as the docstring announces
FallbackAlways(working) == TRUE

\* `if not hybrid_pdf_results`
FallbackNeeded(working) == working = <<>>

\* entries of the final list; `id` stands for the passage payload
\* (title, content, url) the entry is built from
PdfEntries(rows) == [i \in DOMAIN rows |-> [type |-> "pdf", id |-> rows[i].id, sim |-> rows[i].sim]]
WebEntries(rows) == [i \in DOMAIN rows |-> [type |-> "web", id |-> rows[i].id, sim |-> rows[i].sim]]

\* key=lambda x: x.get('similarity', 0) or 0
SortKey(e) == IF e.sim = NoSim THEN 0 ELSE e.sim

\* (mutant) reverse=True forgotten: ascending order
InsertAsc(sorted, e) ==
    LET n == Cardinality({i \in DOMAIN sorted : SortKey(sorted[i]) <= SortKey(e)})
    IN  SubSeq(sorted, 1, n) \o <<e>> \o SubSeq(sorted, n + 1, Len(sorted))

\* list.sort(key=..., reverse=True): descending, equal keys keep their order
InsertDesc(sorted, e) ==
    LET n == Cardinality({i \in DOMAIN sorted : SortKey(sorted[i]) >= SortKey(e)})
    IN  SubSeq(sorted, 1, n) \o <<e>> \o SubSeq(sorted, n + 1, Len(sorted))

RECURSIVE SortDesc(_)
SortDesc(s) ==
    IF s = <<>> THEN <<>>
    ELSE InsertDesc(SortDesc(SubSeq(s, 1, Len(s) - 1)), s[Len(s)])

\* (mutant) the keyword loop ends after its first iteration
LoopBreaks(idx, kws) == "web"

\* `for kw in keywords`: the next iteration, or the web stage after the last
LoopNext(idx, kws) == IF idx + 1 > Len(kws) THEN "web" ELSE "kw_content"

\* an external call as the search issues it
Call(kind, kw) == [kind |-> kind, kw |-> kw]

\* (mutant) the handler answers with a message, as get_page_content does
SearchExceptMessage(stage) ==
    [outcome |-> "returned", results |-> <<[type |-> "error", id |-> 0, sim |-> NoSim]>>]

\* asyncio.CancelledError is a BaseException: neither `except Exception`
\* of get_embedding nor that of the search matches it
SearchCancelled == [outcome |-> "raised", results |-> <<>>]

\* (mutant) the try block begins after the embedding call
SearchExceptNarrow(stage) ==
    [outcome |-> IF stage = "embed" THEN "raised" ELSE "returned", results |-> <<>>]

\* `except Exception: return ""` around the whole body
SearchExcept(stage) == [outcome |-> "returned", results |-> <<>>]

\* -------------------------------------------------------- DocumentCache
DocKeys == {"page-a", "page-b"}
DocValues == {"text-1", "text-2"}
Absent == "None"
\* amounts by which time.time() is seen to advance between two operations
ClockSteps == {1, CACHE_TTL - 1, CACHE_TTL}

\* (mutant) an entry exactly ttl old still counts as fresh
FreshLax(timestamp, t) == t - timestamp <= CACHE_TTL

\* `time.time() - timestamp < self.ttl`
Fresh(timestamp, t) == t - timestamp < CACHE_TTL

\* `del self.cache[key]`
DocDelete(c, key) == [k \in DOMAIN c \ {key} |-> c[k]]

\* (mutant) a set on a stored key keeps the time of its first insertion
DocStoreKeepTime(c, key, value, t) ==
    [k \in DOMAIN c \cup {key} |->
        IF k = key
        THEN [timestamp |-> IF key \in DOMAIN c THEN c[key].timestamp ELSE t, value |-> value]
        ELSE c[k]]

\* `self.cache[key] = (time.time(), value)`
DocStore(c, key, value, t) ==
    [k \in DOMAIN c \cup {key} |->
        IF k = key THEN [timestamp |-> t, value |-> value] ELSE c[k]]

\* ------------------------------------------------------ catalog listing
\* A text is a sequence of letters; "U" is an upper-case letter, "u" its
\* lower-case form.
Letters == {"U", "u"}
Texts == SeqsUpTo(Letters, MaxTextLen)

\* str.lower()
LowerLetter(c) == IF c = "U" THEN "u" ELSE c
LowerText(t) == [i \in DOMAIN t |-> LowerLetter(t[i])]

\* `sub in text`
Contains(sub, text) ==
    \E i \in 0 .. (Len(text) - Len(sub)) : SubSeq(text, i + 1, i + Len(sub)) = sub

\* dict.get(name, default)
Get(fields, name, default) == IF name \in DOMAIN fields THEN fields[name] ELSE default

\* filter_value: None, or a text (possibly the empty one)
NoFilter == [given |-> FALSE, text |-> <<>>]
Filters == {NoFilter} \cup {[given |-> TRUE, text |-> t] : t \in {<<>>, <<"u">>, <<"U">>, <<"U", "u">>}}

\* `if filter_value:`
Truthy(f) == f.given /\ f.text # <<>>

\* (mutant) the Theme field is not looked at
MatchesNoTheme(fields, filter_val) ==
    \/ Contains(filter_val, LowerText(Get(fields, "Title", <<>>)))
    \/ Contains(filter_val, LowerText(Get(fields, "Description", <<>>)))
    \/ Contains(filter_val, LowerText(Get(fields, "Topics", <<>>)))

\* filter_val in title_val or ... in desc_val or ... topics_val or ... theme_val
Matches(fields, filter_val) ==
    \/ Contains(filter_val, LowerText(Get(fields, "Title", <<>>)))
    \/ Contains(filter_val, LowerText(Get(fields, "Description", <<>>)))
    \/ Contains(filter_val, LowerText(Get(fields, "Topics", <<>>)))
    \/ Contains(filter_val, LowerText(Get(fields, "Theme", <<>>)))

\* the record is not skipped by `continue`
Retained(fields, fv) == Truthy(fv) => Matches(fields, LowerText(fv.text))

\* (mutant) the defaults of two metadata fields are exchanged
EcrMetadataSwapped(fields) ==
    [relevance_score   |-> Get(fields, "ECR_Relevance_Score", DEFAULT_RELEVANCE),
     development_stage |-> Get(fields, "Development_Stage", "medium"),
     estimated_time    |-> Get(fields, "Estimated_Time", "unknown"),
     complexity_level  |-> Get(fields, "Complexity_Level", "all"),
     prerequisites     |-> Get(fields, "Prerequisites", <<>>),
     key_learnings     |-> Get(fields, "Key_Learnings", <<>>),
     common_pitfalls   |-> Get(fields, "Common_Pitfalls", <<>>)]

\* ecr_metadata = {...}
EcrMetadata(fields) ==
    [relevance_score   |-> Get(fields, "ECR_Relevance_Score", DEFAULT_RELEVANCE),
     development_stage |-> Get(fields, "Development_Stage", "all"),
     estimated_time    |-> Get(fields, "Estimated_Time", "unknown"),
     complexity_level  |-> Get(fields, "Complexity_Level", "medium"),
     prerequisites     |-> Get(fields, "Prerequisites", <<>>),
     key_learnings     |-> Get(fields, "Key_Learnings", <<>>),
     common_pitfalls   |-> Get(fields, "Common_Pitfalls", <<>>)]

\* resource = {...}; pos is the index of the record in the snapshot (it is
\* not a key of the dict, it names the record in the properties)
Resource(fields, pos) ==
    [pos          |-> pos,
     title        |-> Get(fields, "Title", <<"Untitled">>),
     author       |-> Get(fields, "Author", "Unknown"),
     description  |-> Get(fields, "Description", <<"No description available">>),
     link         |-> Get(fields, "Link to Resource (Hyperlink)", ""),
     type         |-> Get(fields, "Type of Resource", "Unknown"),
     access_type  |-> Get(fields, "Access Type", "Unknown"),
     ecr_metadata |-> EcrMetadata(fields)]

\* the loop over records: the resources of the retained records, in order
RECURSIVE Collect(_, _)
Collect(recs, fv) ==
    IF recs = <<>> THEN <<>>
    ELSE LET n == Len(recs)
             front == Collect(SubSeq(recs, 1, n - 1), fv)
         IN  IF Retained(recs[n], fv) THEN Append(front, Resource(recs[n], n)) ELSE front

\* (mutant) a resource goes in front of those with an equal score
InsertByScoreTiesFirst(sorted, r) ==
    LET n == Cardinality({i \in DOMAIN sorted :
                 sorted[i].ecr_metadata.relevance_score > r.ecr_metadata.relevance_score})
    IN  SubSeq(sorted, 1, n) \o <<r>> \o SubSeq(sorted, n + 1, Len(sorted))

\* formatted_resources.sort(key=relevance_score, reverse=True): descending,
\* resources with equal scores keep their order
InsertByScore(sorted, r) ==
    LET n == Cardinality({i \in DOMAIN sorted :
                 sorted[i].ecr_metadata.relevance_score >= r.ecr_metadata.relevance_score})
    IN  SubSeq(sorted, 1, n) \o <<r>> \o SubSeq(sorted, n + 1, Len(sorted))

RECURSIVE SortByScore(_)
SortByScore(s) ==
    IF s = <<>> THEN <<>>
    ELSE InsertByScore(SortByScore(SubSeq(s, 1, Len(s) - 1)), s[Len(s)])

\* ', '.join(items) if items else 'None'
RECURSIVE JoinComma(_)
JoinComma(items) ==
    IF items = <<>> THEN "None"
    ELSE IF Len(items) = 1 THEN items[1]
    ELSE items[1] \o ", " \o JoinComma(Tail(items))

\* one section of the returned text
Section(r) ==
    [title             |-> r.title,
     author            |-> r.author,
     description       |-> r.description,
     link_line         |-> IF r.link # "" THEN r.link ELSE "No direct document link available.",
     type              |-> r.type,
     access_type       |-> r.access_type,
     relevance_score   |-> r.ecr_metadata.relevance_score,
     development_stage |-> r.ecr_metadata.development_stage,
     estimated_time    |-> r.ecr_metadata.estimated_time,
     complexity_level  |-> r.ecr_metadata.complexity_level,
     prerequisites     |-> JoinComma(r.ecr_metadata.prerequisites),
     key_learnings     |-> JoinComma(r.ecr_metadata.key_learnings),
     common_pitfalls   |-> JoinComma(r.ecr_metadata.common_pitfalls)]

\* the `fields` of catalog records
TextFields == {"Title", "Description", "Topics", "Theme"}
MetaFields == {"ECR_Relevance_Score", "Development_Stage", "Estimated_Time",
               "Complexity_Level", "Prerequisites", "Key_Learnings", "Common_Pitfalls"}
Scores == {1, DEFAULT_RELEVANCE, 5}

\* records with any of the four text fields, each holding any text
TextRecords == UNION {[S -> Texts] : S \in SUBSET TextFields}

MetaValue(name) ==
    CASE name = "ECR_Relevance_Score" -> 5
      [] name = "Development_Stage" -> "prototype"
      [] name = "Estimated_Time" -> "2 hours"
      [] name = "Complexity_Level" -> "high"
      [] OTHER -> <<"ISO 13485", "IEC 62366">>

\* a titled record with any subset of the seven metadata fields
MetaRecords ==
    {[n \in S \cup {"Title"} |-> IF n = "Title" THEN <<"U">> ELSE MetaValue(n)] :
        S \in SUBSET MetaFields}

\* records with or without a title and a score
ScoreRecords ==
    {[n \in S |-> IF n = "Title" THEN <<"U">> ELSE sc] :
        S \in SUBSET {"Title", "ECR_Relevance_Score"}, sc \in Scores}

\* table.all(max_records=100): the snapshots considered
Catalogs ==
    {<<f>> : f \in TextRecords \cup MetaRecords} \cup SeqsUpTo(ScoreRecords, MaxRecords)

NoListing == [kind |-> "none", sections |-> <<>>]

\* --------------------------------------------- run_agent_with_streaming
\* A streamed chunk is empty, blank, or text; "[]" is the text of an empty
\* JSON list.  partial_text is the sequence of the non-empty chunks.
Chunks == {"", Blank, "[]"}

\* str.strip(): leading and trailing blanks removed
RECURSIVE StripLeft(_)
StripLeft(t) == IF t # <<>> /\ t[1] = Blank THEN StripLeft(Tail(t)) ELSE t

RECURSIVE StripRight(_)
StripRight(t) ==
    IF t # <<>> /\ t[Len(t)] = Blank THEN StripRight(SubSeq(t, 1, Len(t) - 1)) ELSE t

Strip(t) == StripRight(StripLeft(t))

\* `if chunk: partial_text += chunk`
AddChunk(text, chunk) == IF chunk # "" THEN Append(text, chunk) ELSE text

\* (mutant) the last attempt is retried as well
RetryAlways(a) == a < max_retries

\* `if attempt < max_retries - 1`
RetryAllowed(a) == a < max_retries - 1

\* `retry_delay *= 2`
NextDelay(d) == d * 2

\* what the run appends to st.session_state.messages: the messages of the
\* result and, for a non-blank text that differs from the last response,
\* the text itself
NewMessages(text, differs) ==
    <<"new_messages">> \o (IF Strip(text) # <<>> /\ differs THEN <<"partial_text">> ELSE <<>>)

\* ------------------------------------------------------ assessment mode
Topics == {"Usability", "Clinical trials"}
NoTopic == "None"
Options == {"Option A", "Option B"}

\* what the model answers to the request for questions: a JSON list of n
\* well-formed questions, something else, or an exception
McqReplies ==
    {[kind |-> "list", n |-> n] : n \in 0 .. (ASSESSMENT_LENGTH + 1)}
        \cup {[kind |-> "unexpected", n |-> 0], [kind |-> "raise", n |-> 0]}

Question(i) == [question |-> i, correct |-> 0]

\* generate_mcqs_for_topic: `questions[:6]` of a well-formed list, the six
\* placeholders otherwise
GenerateMcqs(reply) ==
    IF reply.kind = "list"
    THEN [i \in 1 .. (IF reply.n < ASSESSMENT_LENGTH THEN reply.n ELSE ASSESSMENT_LENGTH)
             |-> Question(i)]
    ELSE [i \in 1 .. ASSESSMENT_LENGTH |-> Question(i)]

\* `'assessment_started' not in st.session_state or
\*  st.session_state.get('assessment_topic') != selected_topic`
ResetFor(ss, topic) ==
    IF ss.assessment_topic # topic
    THEN [assessment_started      |-> FALSE,
          assessment_topic        |-> topic,
          assessment_question_idx |-> 0,
          assessment_answers      |-> <<>>,
          assessment_questions    |-> <<>>]
    ELSE ss

\* what a run of the script shows for a session state; q_idx counts from
\* 0, so questions[q_idx] is the element q_idx + 1 of the sequence
Display(ss) ==
    LET questions == ss.assessment_questions
        q_idx == ss.assessment_question_idx
        answers == ss.assessment_answers
    IN  IF ~ss.assessment_started THEN "intro"
        ELSE IF q_idx < ASSESSMENT_LENGTH /\ questions # <<>>
             THEN (IF q_idx + 1 \in DOMAIN questions THEN "question" ELSE "IndexError")
        ELSE IF q_idx >= ASSESSMENT_LENGTH
             THEN (IF \A i \in DOMAIN questions : i \in DOMAIN answers
                   THEN "summary" ELSE "IndexError")
        ELSE "blank"

\* ------------------------------------------------------- PDF ingestion
\* processed chunks: the key fields and the content
PdfChunks ==
    [associated_url : {"/usability", "/software"}, title : {"guide.pdf"},
     chunk_number : {0, 1}, content : {"text v1", "text v2"}]

KeyOf(x) ==
    [associated_url |-> x.associated_url, title |-> x.title, chunk_number |-> x.chunk_number]

PdfKeys == {KeyOf(c) : c \in PdfChunks}

NoRow == [id |-> 0, associated_url |-> "", title |-> "", chunk_number |-> 0, content |-> ""]

\* the row the store makes of the inserted data
NewRow(table, chunk) ==
    [id |-> Len(table) + 1, associated_url |-> chunk.associated_url, title |-> chunk.title,
     chunk_number |-> chunk.chunk_number, content |-> chunk.content]

\* (mutant) the select also compares the content
ExistingSameContent(table, chunk) ==
    SelectSeq(table, LAMBDA row : KeyOf(row) = KeyOf(chunk) /\ row.content = chunk.content)

\* select("*").eq("associated_url", ..).eq("title", ..).eq("chunk_number", ..)
Existing(table, chunk) == SelectSeq(table, LAMBDA row : KeyOf(row) = KeyOf(chunk))

NoInsert == [chunk |-> NoRow, step |-> "none", failed |-> "none", ret |-> "none", row |-> NoRow]

VARIABLES
    pc,                  \* position of the search coroutine
    searches,            \* searches started so far
    user_query,          \* argument of the running / last search
    memo,                \* lru_cache of get_embedding, least recent first
    cacheHit,            \* "hit" or "miss" of the last lru_cache lookup
    embedRet,            \* how the last get_embedding call ended
    query_embedding,
    keywords,
    kwIdx,               \* index of the keyword being searched
    pdf_results,         \* reply of match_pdf_documents
    keyword_result_content,
    hybrid_pdf_results,
    seen_ids,
    web_results,         \* reply of match_site_pages
    results,             \* the list the search returned
    outcome,             \* "running", "returned" or "raised"
    failure,             \* stage whose call raised: "none", "embed", "pdf", "web"
    backendCalls,        \* texts sent to the embedding backend, in order
    pdfVecCalls,         \* calls of this search, per kind
    substrCalls,
    webVecCalls,
    callLog,             \* external calls of this search, in the order issued
    cache,               \* DocumentCache.cache: key -> (timestamp, value)
    now,                 \* time.time()
    ticks,               \* clock advances so far
    docOp,               \* the last DocumentCache operation and what it returned
    callers,             \* direct callers of get_embedding: position, text, what the await gave
    lastUse,             \* for every text, the number of the latest get_embedding call with it
    embedClock,          \* get_embedding calls made so far
    callsLeft,           \* calls the callers may still make
    filter_value,        \* argument of list_airtable_resources
    records,             \* the snapshot returned by table.all
    formatted_resources,
    listing,             \* what list_airtable_resources returned
    runPc,               \* position of run_agent_with_streaming
    attempt,             \* loop variable of `for attempt in range(max_retries)`
    retry_delay,
    partial_text,
    chunksRead,          \* chunks taken from the stream in this attempt
    sleeps,              \* the delays slept so far, in order
    errors,              \* the exceptions the attempts ended with, in order
    messages,            \* what the run added to st.session_state.messages
    session_state,       \* the assessment keys of st.session_state
    screen,              \* what the last run of the script displayed
    pdf_documents,       \* the rows of the pdf_documents table, in insertion order
    lastInsert,          \* the last insert_pdf_chunk call and what it returned
    insertCalls          \* insert_pdf_chunk calls made so far

searchVars == <<pc, searches, user_query, memo, cacheHit, embedRet, query_embedding, keywords,
                kwIdx, pdf_results, keyword_result_content, hybrid_pdf_results,
                seen_ids, web_results, results, outcome, failure, backendCalls,
                pdfVecCalls, substrCalls, webVecCalls, callLog>>

cacheVars == <<cache, now, ticks, docOp>>

embVars == <<callers, lastUse, embedClock, callsLeft>>

rankVars == <<filter_value, records, formatted_resources, listing>>

runVars == <<runPc, attempt, retry_delay, partial_text, chunksRead, sleeps, errors, messages>>

assessVars == <<session_state, screen>>

ingestVars == <<pdf_documents, lastInsert, insertCalls>>

vars == <<searchVars, cacheVars, embVars, rankVars, runVars, assessVars, ingestVars>>

NoReply == [status |-> "none", data |-> <<>>]

SearchInit ==
    /\ pc = "idle"
    /\ searches = 0
    /\ user_query = <<>>
    /\ cacheHit = "none"
    /\ embedRet = "none"
    /\ query_embedding = NoVector
    /\ keywords = <<>>
    /\ kwIdx = 0
    /\ pdf_results = NoReply
    /\ keyword_result_content = NoReply
    /\ hybrid_pdf_results = <<>>
    /\ seen_ids = {}
    /\ web_results = NoReply
    /\ results = <<>>
    /\ outcome = "idle"
    /\ failure = "none"
    /\ backendCalls = <<>>
    /\ pdfVecCalls = 0
    /\ substrCalls = 0
    /\ webVecCalls = 0
    /\ callLog = <<>>

\* document_cache = DocumentCache()
CacheInit ==
    /\ cache = <<>>
    /\ now = 0
    /\ ticks = 0
    /\ docOp = [op |-> "none", key |-> Absent, value |-> Absent, ret |-> Absent,
                expired |-> FALSE]

\* a process that has not searched yet
\* no direct call of get_embedding was made yet
EmbInit ==
    /\ callers = [c \in Callers |-> Idle]
    /\ lastUse = <<>>
    /\ embedClock = 0
    /\ callsLeft = MaxCalls

\* list_airtable_resources was not called yet
RankInit ==
    /\ filter_value = NoFilter
    /\ records = <<>>
    /\ formatted_resources = <<>>
    /\ listing = NoListing

\* run_agent_with_streaming was not called yet
RunInit ==
    /\ runPc = "idle"
    /\ attempt = 0
    /\ retry_delay = INITIAL_RETRY_DELAY
    /\ partial_text = <<>>
    /\ chunksRead = 0
    /\ sleeps = <<>>
    /\ errors = <<>>
    /\ messages = <<>>

\* a new browser session: the script has not run in assessment mode yet
AssessInit ==
    /\ session_state = [assessment_started      |-> FALSE,
                        assessment_topic        |-> NoTopic,
                        assessment_question_idx |-> 0,
                        assessment_answers      |-> <<>>,
                        assessment_questions    |-> <<>>]
    /\ screen = "none"

\* an empty pdf_documents table before the first ingestion
IngestInit ==
    /\ pdf_documents = <<>>
    /\ lastInsert = NoInsert
    /\ insertCalls = 0

FreshInit ==
    /\ SearchInit /\ memo = <<>> /\ CacheInit /\ EmbInit /\ RankInit /\ RunInit /\ AssessInit
    /\ IngestInit

\* a process that has embedded EMBEDDING_CACHE_SIZE - 1 distinct texts, one
\* after the other: the lru_cache is one entry short of full; backendCalls
\* logs the backend calls made from here on
LruInit ==
    /\ SearchInit
    /\ CacheInit
    /\ memo = [t \in 1 .. (EMBEDDING_CACHE_SIZE - 1) |->
                  [key |-> CacheKey(t), value |-> BackendVector]]
    /\ callers = [c \in Callers |-> Idle]
    /\ lastUse = [t \in 1 .. (EMBEDDING_CACHE_SIZE - 1) |-> t]
    /\ embedClock = EMBEDDING_CACHE_SIZE - 1
    /\ callsLeft = MaxCalls
    /\ RankInit
    /\ RunInit
    /\ AssessInit
    /\ IngestInit

\* a process that may have searched for "Device" before: the coroutine of
\* that call is still in the lru_cache
PriorQuery == <<"Device">>
Init ==
    /\ SearchInit
    /\ memo \in {<<>>, <<[key |-> CacheKey(PriorQuery), value |-> BackendVector]>>}
    /\ CacheInit
    /\ EmbInit
    /\ RankInit
    /\ RunInit
    /\ AssessInit
    /\ IngestInit

\* the except clause: the search ends with what the handler returns
Fail(stage) ==
    /\ pc' = "done"
    /\ failure' = stage
    /\ outcome' = SearchExcept(stage).outcome
    /\ results' = SearchExcept(stage).results

\* the agent calls the tool with a query
StartSearch(q) ==
    /\ pc \in {"idle", "done"}
    /\ searches' = searches + 1
    /\ user_query' = q
    /\ pc' = "embed"
    /\ outcome' = "running"
    /\ failure' = "none"
    /\ cacheHit' = "none"
    /\ embedRet' = "none"
    /\ query_embedding' = NoVector
    /\ keywords' = <<>>
    /\ kwIdx' = 0
    /\ pdf_results' = NoReply
    /\ keyword_result_content' = NoReply
    /\ hybrid_pdf_results' = <<>>
    /\ seen_ids' = {}
    /\ web_results' = NoReply
    /\ results' = <<>>
    /\ pdfVecCalls' = 0
    /\ substrCalls' = 0
    /\ webVecCalls' = 0
    /\ callLog' = <<>>
    /\ UNCHANGED <<memo, backendCalls, cacheVars, embVars, rankVars, runVars, assessVars, ingestVars>>

\* get_embedding(user_query, client) with the key already cached: lru_cache
\* hands back the coroutine object of the first call, and awaiting a
\* coroutine a second time raises RuntimeError
EmbedHit ==
    /\ pc = "embed"
    /\ MemoIndex(memo, CacheKey(user_query)) # 0
    /\ memo' = LruTouch(memo, CacheKey(user_query))
    /\ cacheHit' = "hit"
    /\ embedRet' = "RuntimeError"
    /\ Fail("embed")
    /\ UNCHANGED <<searches, user_query, query_embedding, keywords, kwIdx, pdf_results,
                   keyword_result_content, hybrid_pdf_results, seen_ids, web_results,
                   backendCalls, pdfVecCalls, substrCalls, webVecCalls, callLog,
                   cacheVars, embVars, rankVars, runVars, assessVars, ingestVars>>

\* get_embedding(user_query, client) with a new key: a coroutine is created,
\* cached, and runs up to the backend request
EmbedMiss ==
    /\ pc = "embed"
    /\ MemoIndex(memo, CacheKey(user_query)) = 0
    /\ memo' = LruInsert(memo, CacheKey(user_query))
    /\ cacheHit' = "miss"
    /\ backendCalls' = Append(backendCalls, user_query)
    /\ callLog' = Append(callLog, Call("embedding", ""))
    /\ pc' = "embed_wait"
    /\ UNCHANGED <<searches, user_query, embedRet, query_embedding, keywords, kwIdx,
                   pdf_results, keyword_result_content, hybrid_pdf_results, seen_ids,
                   web_results, results, outcome, failure, pdfVecCalls, substrCalls,
                   webVecCalls,
                   cacheVars, embVars, rankVars, runVars, assessVars, ingestVars>>

\* the backend answers or raises; get_embedding returns; the search derives
\* its keywords and empties its working list
EmbedReturn(backend) ==
    /\ pc = "embed_wait"
    /\ LET v == EmbeddingResult(backend)
           i == MemoIndex(memo, CacheKey(user_query))
       IN  /\ query_embedding' = v
           /\ memo' = [memo EXCEPT ![i].value = v]
    /\ embedRet' = "vector"
    /\ keywords' = Keywords(user_query)
    /\ seen_ids' = {}
    /\ hybrid_pdf_results' = <<>>
    /\ pc' = "pdf_vector"
    /\ UNCHANGED <<searches, user_query, cacheHit, callLog, kwIdx, pdf_results, keyword_result_content,
                   web_results, results, outcome, failure, backendCalls, pdfVecCalls,
                   substrCalls, webVecCalls,
                   cacheVars, embVars, rankVars, runVars, assessVars, ingestVars>>

\* rpc('match_pdf_documents') and the merge of its rows
PdfVector(reply) ==
    /\ pc = "pdf_vector"
    /\ pdfVecCalls' = pdfVecCalls + 1
    /\ callLog' = Append(callLog, Call("pdf_vector", ""))
    /\ pdf_results' = reply
    /\ IF reply.status = "raise"
       THEN /\ Fail("pdf")
            /\ UNCHANGED <<hybrid_pdf_results, seen_ids, kwIdx>>
       ELSE LET working == MergeRows(hybrid_pdf_results, DataOrEmpty(reply))
            IN  /\ hybrid_pdf_results' = working
                /\ seen_ids' = {working[i].id : i \in DOMAIN working}
                /\ kwIdx' = IF FallbackNeeded(working) THEN 1 ELSE 0
                /\ pc' = IF FallbackNeeded(working) THEN "kw_content" ELSE "web"
                /\ UNCHANGED <<results, outcome, failure>>
    /\ UNCHANGED <<searches, user_query, memo, cacheHit, embedRet, query_embedding, keywords,
                   keyword_result_content, web_results, backendCalls, substrCalls,
                   webVecCalls,
                   cacheVars, embVars, rankVars, runVars, assessVars, ingestVars>>

\* from_('pdf_documents').ilike('content', kw) for keywords[kwIdx]
KeywordContent(reply) ==
    /\ pc = "kw_content"
    /\ substrCalls' = substrCalls + 1
    /\ callLog' = Append(callLog, Call("content", keywords[kwIdx]))
    /\ keyword_result_content' = reply
    /\ IF reply.status = "raise"
       THEN Fail("pdf")
       ELSE /\ pc' = "kw_title"
            /\ UNCHANGED <<results, outcome, failure>>
    /\ UNCHANGED <<searches, user_query, memo, cacheHit, embedRet, query_embedding, keywords, kwIdx,
                   pdf_results, hybrid_pdf_results, seen_ids, web_results, backendCalls,
                   pdfVecCalls, webVecCalls,
                   cacheVars, embVars, rankVars, runVars, assessVars, ingestVars>>

\* from_('pdf_documents').ilike('title', kw), then the merge of both replies
KeywordTitle(reply) ==
    /\ pc = "kw_title"
    /\ substrCalls' = substrCalls + 1
    /\ callLog' = Append(callLog, Call("title", keywords[kwIdx]))
    /\ IF reply.status = "raise"
       THEN /\ Fail("pdf")
            /\ UNCHANGED <<hybrid_pdf_results, seen_ids, kwIdx, keyword_result_content>>
       ELSE LET working == MergeKeyword(hybrid_pdf_results,
                                        DataOrEmpty(keyword_result_content),
                                        DataOrEmpty(reply))
            IN  /\ hybrid_pdf_results' = working
                /\ seen_ids' = {working[i].id : i \in DOMAIN working}
                /\ kwIdx' = kwIdx + 1
                /\ keyword_result_content' = NoReply
                /\ pc' = LoopNext(kwIdx, keywords)
                /\ UNCHANGED <<results, outcome, failure>>
    /\ UNCHANGED <<searches, user_query, memo, cacheHit, embedRet, query_embedding, keywords,
                   pdf_results, web_results, backendCalls, pdfVecCalls, webVecCalls,
                   cacheVars, embVars, rankVars, runVars, assessVars, ingestVars>>

\* rpc('match_site_pages'), the merge of both lists, the sort and the return;
\* iterating web_results.data when it is None raises TypeError
WebVector(reply) ==
    /\ pc = "web"
    /\ webVecCalls' = webVecCalls + 1
    /\ callLog' = Append(callLog, Call("web_vector", ""))
    /\ web_results' = reply
    /\ IF reply.status # "ok"
       THEN Fail("web")
       ELSE /\ results' = SortDesc(PdfEntries(hybrid_pdf_results) \o WebEntries(reply.data))
            /\ outcome' = "returned"
            /\ pc' = "done"
            /\ UNCHANGED failure
    /\ UNCHANGED <<searches, user_query, memo, cacheHit, embedRet, query_embedding, keywords, kwIdx,
                   pdf_results, keyword_result_content, hybrid_pdf_results, seen_ids,
                   backendCalls, pdfVecCalls, substrCalls,
                   cacheVars, embVars, rankVars, runVars, assessVars, ingestVars>>

\* the caller cancels the search while it is suspended; its only suspension
\* point is the await of the embedding request (the store calls are
\* synchronous), and CancelledError passes both handlers
Cancel ==
    /\ pc = "embed_wait"
    /\ pc' = "done"
    /\ failure' = "cancel"
    /\ embedRet' = "CancelledError"
    /\ outcome' = SearchCancelled.outcome
    /\ results' = SearchCancelled.results
    /\ UNCHANGED <<searches, user_query, memo, cacheHit, query_embedding, keywords, kwIdx,
                   pdf_results, keyword_result_content, hybrid_pdf_results, seen_ids,
                   web_results, backendCalls, pdfVecCalls, substrCalls, webVecCalls,
                   callLog,
                   cacheVars, embVars, rankVars, runVars, assessVars, ingestVars>>

\* what a direct caller's step leaves alone
EmbedFrame ==
    UNCHANGED <<pc, searches, user_query, cacheHit, embedRet, query_embedding, keywords,
                kwIdx, pdf_results, keyword_result_content, hybrid_pdf_results,
                seen_ids, web_results, results, outcome, failure,
                pdfVecCalls, substrCalls, webVecCalls, callLog, cache, now, ticks, docOp,
                rankVars, runVars, assessVars, ingestVars>>

\* a caller runs `await get_embedding(text, client)` and the key is in the
\* lru_cache: the wrapper hands out the stored coroutine object, which is
\* running or finished, and awaiting it raises RuntimeError
EmbedCallHit(c, text) ==
    /\ callsLeft > 0
    /\ callers[c].pc # "waiting"
    /\ MemoIndex(memo, CacheKey(text)) # 0
    /\ memo' = LruTouch(memo, CacheKey(text))
    /\ callers' = [callers EXCEPT ![c] =
                      [pc |-> "done", text |-> text, ret |-> "RuntimeError", vector |-> NoVector]]
    /\ lastUse' = Used(lastUse, text, embedClock + 1)
    /\ embedClock' = embedClock + 1
    /\ callsLeft' = callsLeft - 1
    /\ UNCHANGED backendCalls
    /\ EmbedFrame

\* the key is new: a coroutine is created and stored, the caller awaits it
\* and is suspended in the request to the backend
EmbedCallMiss(c, text) ==
    /\ callsLeft > 0
    /\ callers[c].pc # "waiting"
    /\ MemoIndex(memo, CacheKey(text)) = 0
    /\ memo' = LruInsert(memo, CacheKey(text))
    /\ backendCalls' = Append(backendCalls, text)
    /\ callers' = [callers EXCEPT ![c] =
                      [pc |-> "waiting", text |-> text, ret |-> "none", vector |-> NoVector]]
    /\ lastUse' = Used(lastUse, text, embedClock + 1)
    /\ embedClock' = embedClock + 1
    /\ callsLeft' = callsLeft - 1
    /\ EmbedFrame

\* the backend answers or raises and the suspended caller gets its vector
BackendReturn(c, backend) ==
    /\ callers[c].pc = "waiting"
    /\ callers' = [callers EXCEPT ![c].pc = "done", ![c].ret = "vector",
                                  ![c].vector = EmbeddingResult(backend)]
    /\ memo' = MemoResolve(memo, CacheKey(callers[c].text), EmbeddingResult(backend))
    /\ UNCHANGED <<backendCalls, lastUse, embedClock, callsLeft>>
    /\ EmbedFrame

\* the agent calls list_airtable_resources and table.all answers
ListResources(fv, recs) ==
    /\ listing = NoListing
    /\ filter_value' = fv
    /\ records' = recs
    /\ IF recs = <<>>
       THEN /\ formatted_resources' = <<>>
            /\ listing' = [kind |-> "no_resources", sections |-> <<>>]
       ELSE LET sorted == SortByScore(Collect(recs, fv))
            IN  /\ formatted_resources' = sorted
                /\ listing' = [kind |-> "listing",
                               sections |-> [i \in DOMAIN sorted |-> Section(sorted[i])]]
    /\ UNCHANGED <<searchVars, cacheVars, embVars, runVars, assessVars, ingestVars>>

\* table.all raises: the handler returns the error text
ListResourcesFails(fv) ==
    /\ listing = NoListing
    /\ filter_value' = fv
    /\ listing' = [kind |-> "error", sections |-> <<>>]
    /\ UNCHANGED <<records, formatted_resources, searchVars, cacheVars, embVars, runVars, assessVars, ingestVars>>

\* what a step of run_agent_with_streaming leaves alone
RunFrame == UNCHANGED <<searchVars, cacheVars, embVars, rankVars, assessVars, ingestVars>>

\* the user sends a message: the loop starts with its first attempt
RunAgent ==
    /\ runPc = "idle"
    /\ runPc' = "streaming"
    /\ attempt' = 0
    /\ retry_delay' = INITIAL_RETRY_DELAY
    /\ partial_text' = <<>>
    /\ chunksRead' = 0
    /\ UNCHANGED <<sleeps, errors, messages>>
    /\ RunFrame

\* `async for chunk in result.stream_text(delta=True)`
StreamChunk(chunk) ==
    /\ runPc = "streaming"
    /\ chunksRead < MaxChunks
    /\ chunksRead' = chunksRead + 1
    /\ partial_text' = AddChunk(partial_text, chunk)
    /\ UNCHANGED <<runPc, attempt, retry_delay, sleeps, errors, messages>>
    /\ RunFrame

\* the stream raises AssertionError: the full response replaces the text
StreamFallback(full_response) ==
    /\ runPc = "streaming"
    /\ runPc' = "fallback"
    /\ partial_text' = full_response
    /\ UNCHANGED <<attempt, retry_delay, chunksRead, sleeps, errors, messages>>
    /\ RunFrame

\* the stream is finished: the messages are stored and the function returns
AttemptReturns(differs) ==
    /\ runPc \in {"streaming", "fallback"}
    /\ messages' = messages \o NewMessages(partial_text, differs)
    /\ runPc' = "returned"
    /\ UNCHANGED <<attempt, retry_delay, partial_text, chunksRead, sleeps, errors>>
    /\ RunFrame

\* the attempt ends with httpx.RemoteProtocolError
ProtocolError ==
    /\ runPc \in {"streaming", "fallback"}
    /\ errors' = Append(errors, "RemoteProtocolError")
    /\ runPc' = IF RetryAllowed(attempt) THEN "sleeping" ELSE "raised"
    /\ UNCHANGED <<attempt, retry_delay, partial_text, chunksRead, sleeps, messages>>
    /\ RunFrame

\* the attempt ends with any other exception
OtherError ==
    /\ runPc \in {"streaming", "fallback"}
    /\ errors' = Append(errors, "Exception")
    /\ runPc' = "raised"
    /\ UNCHANGED <<attempt, retry_delay, partial_text, chunksRead, sleeps, messages>>
    /\ RunFrame

\* asyncio.sleep(retry_delay) returns, the delay doubles and the loop goes
\* to its next attempt; after the last value of range(max_retries) the
\* function would fall off its end
SleepReturns ==
    /\ runPc = "sleeping"
    /\ sleeps' = Append(sleeps, retry_delay)
    /\ retry_delay' = NextDelay(retry_delay)
    /\ IF attempt + 1 < max_retries
       THEN /\ attempt' = attempt + 1
            /\ runPc' = "streaming"
            /\ partial_text' = <<>>
            /\ chunksRead' = 0
       ELSE /\ runPc' = "returned"
            /\ UNCHANGED <<attempt, partial_text, chunksRead>>
    /\ UNCHANGED <<errors, messages>>
    /\ RunFrame

\* what a run of the script in assessment mode leaves alone
AssessFrame == UNCHANGED <<searchVars, cacheVars, embVars, rankVars, runVars, ingestVars>>

\* the script runs with a topic selected and no button pressed
ViewAssessment(topic) ==
    /\ session_state' = ResetFor(session_state, topic)
    /\ screen' = Display(ResetFor(session_state, topic))
    /\ AssessFrame

\* the user presses 'Start Assessment': the state is set, the questions are
\* generated, and st.rerun() runs the script again
StartAssessment(reply) ==
    /\ screen = "intro"
    /\ LET started == [session_state EXCEPT
                          !.assessment_started = TRUE,
                          !.assessment_question_idx = 0,
                          !.assessment_answers = <<>>,
                          !.assessment_questions = GenerateMcqs(reply)]
       IN  /\ session_state' = started
           /\ screen' = Display(started)
    /\ AssessFrame

\* the user presses 'Next' under a question: the answer is recorded, the
\* index advances, and st.rerun() runs the script again
NextQuestion(answer) ==
    /\ screen = "question"
    /\ LET advanced == [session_state EXCEPT
                           !.assessment_answers = Append(@, answer),
                           !.assessment_question_idx = @ + 1]
       IN  /\ session_state' = advanced
           /\ screen' = Display(advanced)
    /\ AssessFrame

\* what a call of insert_pdf_chunk leaves alone
IngestFrame == UNCHANGED <<searchVars, cacheVars, embVars, rankVars, runVars, assessVars>>

\* insert_pdf_chunk(chunk) with a working store: the existing row is
\* returned, or the chunk is inserted and the response returned
InsertPdfChunk(chunk) ==
    /\ insertCalls < MaxInserts
    /\ insertCalls' = insertCalls + 1
    /\ LET existing == Existing(pdf_documents, chunk)
       IN  IF existing # <<>>
           THEN /\ lastInsert' = [chunk |-> NewRow(<<>>, chunk), step |-> "existing",
                                  failed |-> "none", ret |-> "row", row |-> existing[1]]
                /\ UNCHANGED pdf_documents
           ELSE /\ pdf_documents' = Append(pdf_documents, NewRow(pdf_documents, chunk))
                /\ lastInsert' = [chunk |-> NewRow(<<>>, chunk), step |-> "inserted",
                                  failed |-> "none", ret |-> "result",
                                  row |-> NewRow(pdf_documents, chunk)]
    /\ IngestFrame

\* the select raises: the handler returns None
InsertSelectFails(chunk) ==
    /\ insertCalls < MaxInserts
    /\ insertCalls' = insertCalls + 1
    /\ lastInsert' = [chunk |-> NewRow(<<>>, chunk), step |-> "select", failed |-> "select",
                      ret |-> "None", row |-> NoRow]
    /\ UNCHANGED pdf_documents
    /\ IngestFrame

\* the select finds nothing and the insert raises: the handler returns
\* None; the store may or may not have written the row before the error
InsertFails(chunk, written) ==
    /\ insertCalls < MaxInserts
    /\ Existing(pdf_documents, chunk) = <<>>
    /\ insertCalls' = insertCalls + 1
    /\ pdf_documents' = IF written THEN Append(pdf_documents, NewRow(pdf_documents, chunk))
                        ELSE pdf_documents
    /\ lastInsert' = [chunk |-> NewRow(<<>>, chunk), step |-> "insert", failed |-> "insert",
                      ret |-> "None", row |-> NoRow]
    /\ IngestFrame

\* DocumentCache.get(key)
DocGet(key) ==
    /\ IF key \in DOMAIN cache
       THEN IF Fresh(cache[key].timestamp, now)
            THEN /\ docOp' = [op |-> "get", key |-> key, value |-> Absent, ret |-> cache[key].value,
                              expired |-> FALSE]
                 /\ UNCHANGED cache
            ELSE /\ cache' = DocDelete(cache, key)
                 /\ docOp' = [op |-> "get", key |-> key, value |-> Absent, ret |-> Absent,
                              expired |-> TRUE]
       ELSE /\ docOp' = [op |-> "get", key |-> key, value |-> Absent, ret |-> Absent,
                         expired |-> FALSE]
            /\ UNCHANGED cache
    /\ UNCHANGED <<now, ticks, searchVars, embVars, rankVars, runVars, assessVars, ingestVars>>

\* DocumentCache.set(key, value)
DocSet(key, value) ==
    /\ cache' = DocStore(cache, key, value, now)
    /\ docOp' = [op |-> "set", key |-> key, value |-> value, ret |-> Absent,
                 expired |-> FALSE]
    /\ UNCHANGED <<now, ticks, searchVars, embVars, rankVars, runVars, assessVars, ingestVars>>

\* time passes between two operations
Tick(d) ==
    /\ ticks < MaxTicks
    /\ ticks' = ticks + 1
    /\ now' = now + d
    /\ docOp' = [op |-> "tick", key |-> Absent, value |-> Absent, ret |-> Absent,
                 expired |-> FALSE]
    /\ UNCHANGED <<cache, searchVars, embVars, rankVars, runVars, assessVars, ingestVars>>

\* one invocation of the tool, with any query
Invoke == \E q \in Queries : pc = "idle" /\ StartSearch(q)

Next ==
    \/ Invoke
    \/ EmbedHit
    \/ EmbedMiss
    \/ \E b \in {"ok", "raise"} : EmbedReturn(b)
    \/ \E r \in Reply(PdfRows) : PdfVector(r)
    \/ \E r \in Reply(KeywordRows) : KeywordContent(r)
    \/ \E r \in Reply(KeywordRows) : KeywordTitle(r)
    \/ \E r \in Reply(WebRows) : WebVector(r)

Spec == Init /\ [][Next]_vars

\* one invocation that the caller may cancel
NextCancel ==
    \/ Invoke
    \/ EmbedHit
    \/ EmbedMiss
    \/ Cancel
    \/ \E b \in {"ok", "raise"} : EmbedReturn(b)
    \/ \E r \in Reply(PdfRows) : PdfVector(r)
    \/ \E r \in Reply(KeywordRows) : KeywordContent(r)
    \/ \E r \in Reply(KeywordRows) : KeywordTitle(r)
    \/ \E r \in Reply(WebRows) : WebVector(r)

SpecCancel == Init /\ [][NextCancel]_vars

\* a session: the agent calls the tool several times, possibly repeating a query
SessionQueries == {<<"Device">>, <<"Device", Blank, "Device">>}
Again == \E q \in SessionQueries : searches < MaxSearches /\ StartSearch(q)

NextSession ==
    \/ Again
    \/ EmbedHit
    \/ EmbedMiss
    \/ \E b \in {"ok", "raise"} : EmbedReturn(b)
    \/ \E r \in Reply(PdfRows) : PdfVector(r)
    \/ \E r \in Reply(KeywordRows) : KeywordContent(r)
    \/ \E r \in Reply(KeywordRows) : KeywordTitle(r)
    \/ \E r \in Reply(WebRows) : WebVector(r)

SpecSession == FreshInit /\ [][NextSession]_vars

\* the document cache used on its own
NextCache ==
    \/ \E k \in DocKeys : DocGet(k)
    \/ \E k \in DocKeys, v \in DocValues : DocSet(k, v)
    \/ \E d \in ClockSteps : Tick(d)

SpecCache == FreshInit /\ [][NextCache]_vars

\* tasks of one event loop that call get_embedding and use document_cache;
\* they interleave at the one suspension point, the backend request
NextConcurrent ==
    \/ \E c \in Callers, t \in SharedTexts : EmbedCallHit(c, t)
    \/ \E c \in Callers, t \in SharedTexts : EmbedCallMiss(c, t)
    \/ \E c \in Callers, b \in {"ok", "raise"} : BackendReturn(c, b)
    \/ \E k \in DocKeys : DocGet(k)
    \/ \E k \in DocKeys, v \in DocValues : DocSet(k, v)

SpecConcurrent == FreshInit /\ [][NextConcurrent]_vars

\* calls of get_embedding on an lru_cache that is about to fill up
NextLru ==
    \/ \E c \in Callers, t \in LruTexts : EmbedCallHit(c, t)
    \/ \E c \in Callers, t \in LruTexts : EmbedCallMiss(c, t)
    \/ \E c \in Callers, b \in {"ok", "raise"} : BackendReturn(c, b)

SpecLru == LruInit /\ [][NextLru]_vars

\* one call of list_airtable_resources
List == listing = NoListing /\ \E fv \in Filters, recs \in Catalogs : ListResources(fv, recs)

ListFails == listing = NoListing /\ \E fv \in Filters : ListResourcesFails(fv)

NextRank ==
    \/ List
    \/ ListFails

SpecRank == FreshInit /\ [][NextRank]_vars

\* one call of run_agent_with_streaming
NextRun ==
    \/ RunAgent
    \/ \E c \in Chunks : StreamChunk(c)
    \/ \E t \in {<<>>, <<"[]">>, <<"text">>} : StreamFallback(t)
    \/ \E d \in BOOLEAN : AttemptReturns(d)
    \/ ProtocolError
    \/ OtherError
    \/ SleepReturns

SpecRun == FreshInit /\ [][NextRun]_vars

\* a browser session in assessment mode
NextAssess ==
    \/ \E t \in Topics : ViewAssessment(t)
    \/ \E r \in McqReplies : StartAssessment(r)
    \/ \E a \in Options : NextQuestion(a)

SpecAssess == FreshInit /\ [][NextAssess]_vars

\* process_pdf_directory: insert_pdf_chunk calls awaited one after the other
NextIngest ==
    \/ \E c \in PdfChunks : InsertPdfChunk(c)
    \/ \E c \in PdfChunks : InsertSelectFails(c)
    \/ \E c \in PdfChunks, w \in BOOLEAN : InsertFails(c, w)

SpecIngest == FreshInit /\ [][NextIngest]_vars

\* ---------------------------------------------------------------- claims
NoDupIds(rows) == \A i, j \in DOMAIN rows : i # j => rows[i].id # rows[j].id
IsPrefix(a, b) == Len(a) <= Len(b) /\ SubSeq(b, 1, Len(a)) = a
Count(seq, e) == Cardinality({i \in DOMAIN seq : seq[i] = e})
VectorStageEmpty == pdf_results.status \in {"ok", "nodata"} /\ DataOrEmpty(pdf_results) = <<>>

TokenStarts(q) == {i \in DOMAIN q : q[i] # Blank /\ (i = 1 \/ q[i - 1] = Blank)}
FallbackCompleted == pc \in {"web", "done"} /\ failure = "none" /\ VectorStageEmpty

\* C2 (as stated): after an empty vector stage and no failing store call, the
\* number of substring queries is twice the number of DISTINCT keywords.
C2_TwicePerDistinctKeyword ==
    FallbackCompleted =>
        substrCalls = 2 * Cardinality({Keywords(user_query)[i] : i \in DOMAIN Keywords(user_query)})

\* C2 (amended): after an empty vector stage and no failing store call, the
\* number of substring queries is twice the length of the keyword list, in
\* which the full query, every token and the four bootstrap terms are each
\* counted with their repeats: 2 * (1 + tokens + 4).
C2_TwicePerListedKeyword ==
    FallbackCompleted => substrCalls = 2 * (1 + Cardinality(TokenStarts(user_query)) + 4)

C2_Witness ==
    /\ pc = "done" /\ failure = "none" /\ VectorStageEmpty
    /\ user_query = <<"Device", Blank, "Device">>
    /\ substrCalls = 14

\* C3 (as stated): a failing PDF-store call does not keep the web query from
\* being issued and its rows from being returned, and a failing web-store
\* call does not keep the PDF rows collected so far from being returned.
C3_FailureConfinedToStage ==
    pc = "done" =>
        /\ failure = "pdf" =>
              /\ webVecCalls = 1
              /\ results = SortDesc(WebEntries(DataOrEmpty(web_results)))
        /\ failure = "web" => results = SortDesc(PdfEntries(hybrid_pdf_results))

\* C4 (as stated): every get_embedding call, first or repeated, ends with a
\* vector of 1536 elements and raises nothing.
C4_EmbedAlwaysReturnsVector ==
    /\ embedRet # "RuntimeError"
    /\ embedRet = "vector" => query_embedding.len = 1536

\* C5: a search never raises to its caller, whatever the embedding call and
\* the store calls do and also when a query is repeated; with nothing found
\* in either store it returns the empty result.
C5_SearchNeverRaises ==
    /\ outcome # "raised"
    /\ pc = "done" => outcome = "returned"
    /\ (pc = "done" /\ hybrid_pdf_results = <<>> /\ DataOrEmpty(web_results) = <<>>)
          => results = <<>>

C5_Witness ==
    /\ pc = "done" /\ searches = 2 /\ cacheHit = "hit"
    /\ failure = "embed" /\ outcome = "returned" /\ results = <<>>

\* C6: the list a search returns is a permutation of the PDF working list
\* followed by the web rows, nothing dropped, in non-increasing order of
\* similarity with a missing similarity counted as 0.
SimOrZero(e) == IF e.sim = NoSim THEN 0 ELSE e.sim
C6_SortedPermutation ==
    (pc = "done" /\ failure = "none") =>
        LET merged == PdfEntries(hybrid_pdf_results) \o WebEntries(web_results.data)
        IN  /\ Len(results) = Len(merged)
            /\ \A i \in DOMAIN merged : Count(results, merged[i]) = Count(merged, merged[i])
            /\ \A i, j \in DOMAIN results : i < j => SimOrZero(results[i]) >= SimOrZero(results[j])

C6_Witness ==
    /\ pc = "done" /\ failure = "none"
    /\ results = << [type |-> "web", id |-> 1, sim |-> 95],
                    [type |-> "pdf", id |-> 1, sim |-> 90],
                    [type |-> "pdf", id |-> 2, sim |-> NoSim] >>

\* C7 (as stated): no passage id occurs twice in the returned list, whichever
\* store the entries come from.
C7_NoIdTwice == pc = "done" => NoDupIds(results)

\* C7 (amended): no passage id occurs twice among the PDF entries of the
\* returned list; the web rows are not deduplicated, every row the web store
\* returned is in the list, also one whose id equals that of another web row
\* or of a PDF entry.
C7_NoPdfIdTwice ==
    (pc = "done" /\ failure = "none") =>
        /\ \A i, j \in DOMAIN results :
              (i # j /\ results[i].type = "pdf" /\ results[j].type = "pdf")
                  => results[i].id # results[j].id
        /\ Cardinality({i \in DOMAIN results : results[i].type = "web"}) = Len(web_results.data)

C7_Witness ==
    /\ pc = "done" /\ failure = "none"
    /\ Len(pdf_results.data) = 2 /\ pdf_results.data[1].id = pdf_results.data[2].id
    /\ Len(web_results.data) = 2 /\ web_results.data[1].id = web_results.data[2].id
    /\ web_results.data[1].id = pdf_results.data[1].id
    /\ Len(results) = 3

\* C8: the PDF working list never holds an id twice and keeps first-seen
\* order: a step only appends to it, the rows of the vector stage come first,
\* in a keyword iteration the new content rows come before the new title
\* rows, and every id of the working list is in the returned list once as a
\* PDF entry.
C8_WorkingListFirstSeen ==
    [][ /\ NoDupIds(hybrid_pdf_results')
        /\ pc' # "embed" => IsPrefix(hybrid_pdf_results, hybrid_pdf_results')
        /\ (pc = "pdf_vector" /\ pc' # "done") =>
              /\ \A i \in DOMAIN pdf_results'.data :
                    \E j \in DOMAIN hybrid_pdf_results' :
                        /\ hybrid_pdf_results'[j].id = pdf_results'.data[i].id
                        /\ j <= i
              /\ \A j \in DOMAIN hybrid_pdf_results' :
                    \E i \in DOMAIN pdf_results'.data :
                        /\ hybrid_pdf_results'[j] = pdf_results'.data[i]
                        /\ \A k \in 1..(i - 1) : pdf_results'.data[k].id # pdf_results'.data[i].id
        /\ (pc = "kw_title" /\ pc' # "done") =>
              LET content == keyword_result_content.data
                  fresh == {i \in DOMAIN content :
                              /\ \A j \in DOMAIN hybrid_pdf_results : hybrid_pdf_results[j].id # content[i].id
                              /\ \A k \in 1..(i - 1) : content[k].id # content[i].id}
              IN  /\ Len(hybrid_pdf_results') >= Len(hybrid_pdf_results) + Cardinality(fresh)
                  /\ \A i \in fresh :
                        hybrid_pdf_results'[Len(hybrid_pdf_results)
                                            + Cardinality({k \in fresh : k <= i})] = content[i]
        /\ (pc' = "done" /\ failure' = "none") =>
              \A i \in DOMAIN hybrid_pdf_results' :
                  Cardinality({j \in DOMAIN results' :
                                  /\ results'[j].type = "pdf"
                                  /\ results'[j].id = hybrid_pdf_results'[i].id}) = 1
      ]_vars

C8_Witness ==
    /\ pc = "kw_title" /\ kwIdx = 2
    /\ Len(hybrid_pdf_results) = 2
    /\ keyword_result_content.data = <<hybrid_pdf_results[2], hybrid_pdf_results[1]>>

\* C9 (as stated): no text is sent to the embedding backend twice, and a
\* repeated get_embedding call (a cache hit) returns the vector the first
\* call returned.
C9_HitReturnsFirstVector ==
    /\ \A i, j \in DOMAIN backendCalls : i # j => backendCalls[i] # backendCalls[j]
    /\ cacheHit = "hit" =>
          /\ embedRet = "vector"
          /\ query_embedding = memo[MemoIndex(memo, CacheKey(user_query))].value

\* C10: a get of an entry that is ttl old or older returns absent and removes
\* the entry; a get of a key that is not stored returns absent and stores
\* nothing, so the key stays absent until a set; nothing but such a get
\* removes an entry, and nothing but a set adds one.
C10_LazyExpiry ==
    [][ \A k \in DocKeys :
          /\ (docOp'.op = "get" /\ docOp'.key = k /\ k \in DOMAIN cache
                /\ now - cache[k].timestamp >= CACHE_TTL)
                => (docOp'.ret = Absent /\ k \notin DOMAIN cache')
          /\ (docOp'.op = "get" /\ docOp'.key = k /\ k \notin DOMAIN cache)
                => (docOp'.ret = Absent /\ k \notin DOMAIN cache')
          /\ (k \in DOMAIN cache /\ k \notin DOMAIN cache')
                => (docOp'.op = "get" /\ docOp'.key = k
                      /\ now - cache[k].timestamp >= CACHE_TTL)
          /\ (k \notin DOMAIN cache /\ k \in DOMAIN cache')
                => (docOp'.op = "set" /\ docOp'.key = k)
      ]_vars

C10_Witness ==
    /\ docOp.op = "get" /\ docOp.expired /\ docOp.ret = Absent
    /\ docOp.key \notin DOMAIN cache
    /\ now = CACHE_TTL

\* C11 (as stated): every invocation of search issues exactly one vector
\* query against the web store, and no substring query against it.
C11_OneWebQueryPerSearch ==
    pc = "done" =>
        /\ webVecCalls = 1
        /\ Cardinality({i \in DOMAIN callLog : callLog[i].kind = "web_vector"}) = 1

\* C12 (as stated): a cancellation arriving while the search is suspended
\* makes it return what was merged so far and raises nothing to the caller.
C12_CancelReturnsPartial ==
    (pc = "done" /\ failure = "cancel") => outcome = "returned"

\* the calls of a search that nothing interrupts: the embedding request,
\* the PDF vector query, for an empty vector stage the content and the title
\* query of every keyword in list order, the web vector query
RECURSIVE KeywordCalls(_)
KeywordCalls(kws) ==
    IF kws = <<>> THEN <<>>
    ELSE <<[kind |-> "content", kw |-> kws[1]], [kind |-> "title", kw |-> kws[1]]>>
            \o KeywordCalls(Tail(kws))

FullOrder(fallback) ==
    <<[kind |-> "embedding", kw |-> ""], [kind |-> "pdf_vector", kw |-> ""]>>
        \o (IF fallback THEN KeywordCalls(Keywords(user_query)) ELSE <<>>)
        \o <<[kind |-> "web_vector", kw |-> ""]>>

C14_FailureLooksEmpty ==
    pc = "done" =>
        /\ (failure # "none" \/ (embedRet = "vector" /\ query_embedding = ZeroVector))
              => (outcome = "returned" /\ results = <<>>)
        /\ (failure = "none" /\ hybrid_pdf_results = <<>> /\ web_results.data = <<>>)
              => (outcome = "returned" /\ results = <<>>)

\* C14 (amended): a search in which a store call fails, or in which the
\* await of get_embedding raises, returns the same empty result as a search
\* whose calls all succeed and find nothing; a failure of the embedding
\* backend alone is replaced by the zero vector and the search goes on.
C14_StoreFailureLooksEmpty ==
    pc = "done" =>
        /\ failure # "none" => (outcome = "returned" /\ results = <<>>)
        /\ (failure = "none" /\ hybrid_pdf_results = <<>> /\ web_results.data = <<>>)
              => (outcome = "returned" /\ results = <<>>)

C14_Witness ==
    /\ pc = "done" /\ failure = "web" /\ web_results.status = "raise"
    /\ Len(hybrid_pdf_results) = 2
    /\ outcome = "returned" /\ results = <<>>

\* C15 (as stated): under every interleaving of concurrent embed, get and
\* set calls every caller completes with a well-formed result: each finished
\* embed call, also one of two concurrent calls for the same text, has
\* obtained a vector of 1536 elements.
C15_EveryCallerGetsVector ==
    \A c \in Callers :
        callers[c].pc = "done" =>
            (callers[c].ret = "vector" /\ callers[c].vector.len = EMBEDDING_DIM)

\* C18: the memo never holds more than EMBEDDING_CACHE_SIZE entries, its
\* keys are distinct and ordered by their latest use; a call with a text
\* that is not in the memo issues a backend call, and when the memo is full
\* that call drops exactly the least recently used entry, so the evicted
\* text is a miss when it is embedded again.
C18_BoundedLru ==
    [][ /\ Len(memo') <= EMBEDDING_CACHE_SIZE
        /\ \A i \in 1 .. (Len(memo') - 1) :
              LastUseOf(lastUse', memo'[i].key.text) < LastUseOf(lastUse', memo'[i + 1].key.text)
        /\ \A t \in LruTexts :
              (LastUseOf(lastUse', t) # LastUseOf(lastUse, t)
                 /\ MemoIndex(memo, CacheKey(t)) = 0) =>
                  /\ backendCalls' = Append(backendCalls, t)
                  /\ memo'[Len(memo')].key = CacheKey(t)
                  /\ IF Len(memo) = EMBEDDING_CACHE_SIZE
                     THEN SubSeq(memo', 1, Len(memo') - 1) = Tail(memo)
                     ELSE SubSeq(memo', 1, Len(memo') - 1) = memo
      ]_vars

\* text 1 was embedded again after its eviction: a second backend call
C18_Witness ==
    /\ Len(memo) = EMBEDDING_CACHE_SIZE
    /\ backendCalls = <<EMBEDDING_CACHE_SIZE, EMBEDDING_CACHE_SIZE + 1, 1>>
    /\ memo[1].key = CacheKey(3)
    /\ memo[Len(memo)].key = CacheKey(1)

\* C19: a get of a key made less than ttl after its latest set returns the
\* stored value and leaves the cache as it is, timestamp included; a set
\* stores the new value with the current time, also for a key that is
\* already stored; an entry changes only by a set on its own key, and a get
\* or set on one key leaves every other key's entry as it was.
C19_PerEntryTtl ==
    [][ \A k \in DocKeys :
          /\ (docOp'.op = "get" /\ docOp'.key = k /\ k \in DOMAIN cache
                /\ now - cache[k].timestamp < CACHE_TTL)
                => (docOp'.ret = cache[k].value /\ cache' = cache)
          /\ (docOp'.op = "set" /\ docOp'.key = k)
                => (k \in DOMAIN cache'
                      /\ cache'[k] = [timestamp |-> now, value |-> docOp'.value])
          /\ (k \in DOMAIN cache /\ k \in DOMAIN cache' /\ cache'[k] # cache[k])
                => (docOp'.op = "set" /\ docOp'.key = k)
          /\ (docOp'.op \in {"get", "set"} /\ docOp'.key # k)
                => /\ (k \in DOMAIN cache) = (k \in DOMAIN cache')
                   /\ k \in DOMAIN cache => cache'[k] = cache[k]
      ]_vars

\* a key set again after ttl - 1 is read ttl - 1 later: older than ttl since
\* its first insertion, fresh since its latest set
C19_Witness ==
    /\ docOp.op = "get" /\ docOp.ret \in DocValues
    /\ docOp.key \in DOMAIN cache
    /\ cache[docOp.key].timestamp = CACHE_TTL - 1
    /\ now = 2 * (CACHE_TTL - 1)
    /\ DOMAIN cache = DocKeys

\* positions of the snapshot records that were kept, in output order
KeptPositions == {formatted_resources[i].pos : i \in DOMAIN formatted_resources}

\* the text of a field, the empty text when the record has no such field
FieldText(fields, name) == IF name \in DOMAIN fields THEN fields[name] ELSE <<>>

\* C16: with a filter text, the listing keeps exactly the records in which
\* the lowercased filter occurs in the lowercased Title, Description, Topics
\* or Theme (one field suffices, a missing field counts as empty text); with
\* no filter, or an empty one, it keeps every record, each once.
C16_FilterKeepsMatches ==
    listing.kind = "listing" =>
        /\ Len(formatted_resources) = Cardinality(KeptPositions)
        /\ KeptPositions =
             {i \in DOMAIN records :
                (filter_value.given /\ filter_value.text # <<>>) =>
                    \E name \in TextFields :
                        Contains(LowerText(filter_value.text),
                                 LowerText(FieldText(records[i], name)))}

\* a record is kept for its Theme alone
C16_Witness ==
    /\ listing.kind = "listing"
    /\ filter_value = [given |-> TRUE, text |-> <<"U", "u">>]
    /\ Len(records) = 1
    /\ DOMAIN records[1] = TextFields
    /\ records[1]["Theme"] = <<"u", "U">>
    /\ records[1]["Title"] = <<"U">>
    /\ records[1]["Description"] = <<"U">>
    /\ records[1]["Topics"] = <<>>
    /\ Len(formatted_resources) = 1

\* C17: the listing is ordered by non-increasing relevance_score, and two
\* resources with equal scores, defaulted ones included, stand in the order
\* of their records in the snapshot.
C17_StableDescending ==
    listing.kind = "listing" =>
        \A i \in DOMAIN formatted_resources : \A j \in DOMAIN formatted_resources :
            i < j =>
              LET a == formatted_resources[i]
                  b == formatted_resources[j]
              IN  /\ a.ecr_metadata.relevance_score >= b.ecr_metadata.relevance_score
                  /\ a.ecr_metadata.relevance_score = b.ecr_metadata.relevance_score
                        => a.pos < b.pos

\* two records without a score around one with the score 5: the scored one
\* comes first, the two defaulted ones follow in snapshot order
C17_Witness ==
    /\ listing.kind = "listing"
    /\ Len(records) = 3
    /\ "ECR_Relevance_Score" \notin DOMAIN records[1]
    /\ "ECR_Relevance_Score" \in DOMAIN records[2] /\ records[2]["ECR_Relevance_Score"] = 5
    /\ "ECR_Relevance_Score" \notin DOMAIN records[3]
    /\ Len(formatted_resources) = 3
    /\ formatted_resources[1].pos = 2
    /\ formatted_resources[2].pos = 1
    /\ formatted_resources[3].pos = 3

\* the score a record is ranked by: its own, or the default
ScoreOf(fields) ==
    IF "ECR_Relevance_Score" \in DOMAIN fields
    THEN fields["ECR_Relevance_Score"] ELSE DEFAULT_RELEVANCE

\* C20: a call whose snapshot was fetched returns a listing, whatever
\* metadata fields its records lack; a resource whose record lacks a
\* metadata field shows the default for it (relevance_score 3,
\* development_stage "all", complexity_level "medium", estimated_time
\* "unknown", no prerequisites, key learnings or pitfalls), and the default
\* score is the one the resource is ranked by.
C20_MissingMetadataDefaults ==
    /\ listing.kind = "error" => records = <<>>
    /\ records # <<>> => listing.kind = "listing"
    /\ \A i \in DOMAIN formatted_resources :
          LET r == formatted_resources[i]
              f == records[r.pos]
              md == r.ecr_metadata
          IN  /\ "ECR_Relevance_Score" \notin DOMAIN f => md.relevance_score = 3
              /\ "Development_Stage" \notin DOMAIN f => md.development_stage = "all"
              /\ "Complexity_Level" \notin DOMAIN f => md.complexity_level = "medium"
              /\ "Estimated_Time" \notin DOMAIN f => md.estimated_time = "unknown"
              /\ "Prerequisites" \notin DOMAIN f => md.prerequisites = <<>>
              /\ "Key_Learnings" \notin DOMAIN f => md.key_learnings = <<>>
              /\ "Common_Pitfalls" \notin DOMAIN f => md.common_pitfalls = <<>>
              /\ \A n \in MetaFields \cap DOMAIN f :
                    f[n] = (CASE n = "ECR_Relevance_Score" -> md.relevance_score
                              [] n = "Development_Stage" -> md.development_stage
                              [] n = "Complexity_Level" -> md.complexity_level
                              [] n = "Estimated_Time" -> md.estimated_time
                              [] n = "Prerequisites" -> md.prerequisites
                              [] n = "Key_Learnings" -> md.key_learnings
                              [] OTHER -> md.common_pitfalls)
    /\ \A i \in DOMAIN formatted_resources : \A j \in DOMAIN formatted_resources :
          i < j => ScoreOf(records[formatted_resources[i].pos])
                      >= ScoreOf(records[formatted_resources[j].pos])

\* a record with a title only: every metadata value is a default
C20_Witness ==
    /\ listing.kind = "listing"
    /\ Len(records) = 1
    /\ DOMAIN records[1] = {"Title"}
    /\ Len(formatted_resources) = 1
    /\ formatted_resources[1].ecr_metadata.relevance_score = 3
    /\ listing.sections[1].development_stage = "all"
    /\ listing.sections[1].prerequisites = "None"

\* the delays of the retries: 1, 2, ... doubling from the initial delay
RECURSIVE Backoff(_)
Backoff(n) == IF n = 0 THEN <<>> ELSE Append(Backoff(n - 1), 2 ^ (n - 1))

\* C21: at most 3 attempts are made; every attempt but the last one made
\* ended with a remote-protocol error and was followed by a sleep, the
\* sleeps being 1 and then 2 seconds; the run raises exactly when an attempt
\* ends with another exception (at once, whatever the attempt) or when the
\* third attempt ends with a remote-protocol error; a successful attempt
\* returns, and after a return or a raise nothing more happens.
C21_ThreeAttemptsBackoff ==
    [][ /\ attempt' + 1 <= max_retries
        /\ Len(errors') <= max_retries
        /\ \A i \in 1 .. (Len(errors') - 1) : errors'[i] = "RemoteProtocolError"
        /\ sleeps' = Backoff(Len(sleeps'))
        /\ Len(sleeps') <= max_retries - 1
        /\ runPc' \in {"streaming", "fallback"} =>
              (Len(errors') = attempt' /\ Len(sleeps') = attempt')
        /\ runPc' = "sleeping" =>
              (Len(errors') = attempt' + 1 /\ Len(sleeps') = attempt'
                  /\ retry_delay' = 2 ^ attempt')
        /\ runPc' = "returned" =>
              (Len(errors') = attempt' /\ Len(sleeps') = attempt'
                  /\ runPc \in {"streaming", "fallback"})
        /\ runPc' = "raised" =>
              /\ Len(errors') = attempt' + 1 /\ Len(sleeps') = attempt'
              /\ \/ errors'[Len(errors')] = "Exception"
                 \/ Len(errors') = max_retries
        /\ (Len(errors') > Len(errors) /\ errors'[Len(errors')] = "Exception")
              => (runPc' = "raised" /\ sleeps' = sleeps)
        /\ (Len(errors') > Len(errors) /\ errors'[Len(errors')] = "RemoteProtocolError")
              => (runPc' = IF Len(errors') < max_retries THEN "sleeping" ELSE "raised")
        /\ runPc \in {"returned", "raised"} => UNCHANGED runVars
      ]_vars

\* the third remote-protocol error in a row, after sleeps of 1 and 2 seconds
C21_Witness ==
    /\ runPc = "raised"
    /\ errors = <<"RemoteProtocolError", "RemoteProtocolError", "RemoteProtocolError">>
    /\ sleeps = <<1, 2>>
    /\ attempt = 2

\* C22 (as stated): in a started assessment the number of recorded answers
\* equals assessment_question_idx, the index never exceeds 6, and no run of
\* the script uses an index outside questions or answers, whatever list of
\* questions was generated.
C22_IndicesInRange ==
    session_state.assessment_started =>
        /\ Len(session_state.assessment_answers) = session_state.assessment_question_idx
        /\ session_state.assessment_question_idx <= ASSESSMENT_LENGTH
        /\ screen # "IndexError"

\* rows of the table with a given key
RowsWithKey(table, key) == {i \in DOMAIN table : KeyOf(table[i]) = key}

\* C23: after every insert_pdf_chunk call the table holds at most one row
\* per (associated_url, title, chunk_number); a call for a key that is
\* present leaves the table as it is and, when the select works, returns the
\* stored row; a call for an absent key with a working store adds exactly
\* its row; a call in which the select or the insert raises returns None,
\* and only such a call does.
C23_IdempotentInsert ==
    [][ insertCalls' = insertCalls + 1 =>
          LET key == KeyOf(lastInsert'.chunk)
              before == RowsWithKey(pdf_documents, key)
          IN  /\ \A k \in PdfKeys : Cardinality(RowsWithKey(pdf_documents', k)) <= 1
              /\ before # {} =>
                    /\ pdf_documents' = pdf_documents
                    /\ lastInsert'.failed = "none" =>
                          /\ lastInsert'.ret = "row"
                          /\ \E i \in before : lastInsert'.row = pdf_documents[i]
              /\ (before = {} /\ lastInsert'.failed = "none") =>
                    /\ Len(pdf_documents') = Len(pdf_documents) + 1
                    /\ SubSeq(pdf_documents', 1, Len(pdf_documents)) = pdf_documents
                    /\ KeyOf(pdf_documents'[Len(pdf_documents')]) = key
                    /\ pdf_documents'[Len(pdf_documents')].content = lastInsert'.chunk.content
                    /\ lastInsert'.ret = "result"
              /\ (lastInsert'.failed # "none") = (lastInsert'.ret = "None")
              /\ \A k \in PdfKeys \ {key} :
                    RowsWithKey(pdf_documents', k) = RowsWithKey(pdf_documents, k)
      ]_vars

\* a chunk is sent again with another content: the stored row is returned
\* and nothing is inserted
C23_Witness ==
    /\ lastInsert.step = "existing"
    /\ lastInsert.ret = "row"
    /\ lastInsert.row.content # lastInsert.chunk.content
    /\ Len(pdf_documents) = 2
    /\ insertCalls = 4

TypeOK ==
    /\ pc \in {"idle", "embed", "embed_wait", "pdf_vector", "kw_content", "kw_title", "web", "done"}
    /\ outcome \in {"idle", "running", "returned", "raised"}
    /\ cacheHit \in {"none", "hit", "miss"}
    /\ DOMAIN cache \subseteq DocKeys
    /\ \A c \in Callers :
          /\ callers[c].pc \in {"ready", "waiting", "done"}
          /\ callers[c].ret \in {"none", "vector", "RuntimeError"}
    /\ callsLeft \in 0 .. MaxCalls
    /\ Len(memo) <= EMBEDDING_CACHE_SIZE
    /\ filter_value \in Filters
    /\ listing.kind \in {"none", "no_resources", "listing", "error"}
    /\ Len(formatted_resources) <= Len(records)
    /\ runPc \in {"idle", "streaming", "fallback", "sleeping", "returned", "raised"}
    /\ attempt \in 0 .. (max_retries - 1)
    /\ chunksRead \in 0 .. MaxChunks
    /\ session_state.assessment_topic \in Topics \cup {NoTopic}
    /\ screen \in {"none", "intro", "question", "summary", "blank", "IndexError"}
    /\ insertCalls \in 0 .. MaxInserts
    /\ lastInsert.ret \in {"none", "row", "result", "None"}
    /\ callLog \in Seq([kind : {"embedding", "pdf_vector", "content", "title", "web_vector"},
                         kw : {""} \cup {Text(Lower(q)) : q \in Queries}
                                   \cup {Bootstrap[i] : i \in DOMAIN Bootstrap}])
====
